---- MODULE Spec2Model ----
(***************************************************************************)
(* Model of the conversation turn pipeline of the AI chat portal:          *)
(* backend/conversations/models.py (Conversation.save, Message.save, the   *)
(* post_save signal update_conversation_sentiment), views.py               *)
(* (ConversationViewSet.send_message, update, end_conversation,            *)
(* MessageViewSet), serializers.py, services/ai_service.py                 *)
(* (LMStudioService.chat) and services/analysis_service.py                 *)
(* (SentimentAnalyzer.analyze).                                            *)
(*                                                                         *)
(* Every HTTP request runs in one database transaction (settings.py,       *)
(* ATOMIC_REQUESTS on a PostgreSQL engine, default READ COMMITTED): the    *)
(* statements of a request see the committed rows plus the request's own   *)
(* pending rows, an UPDATE of a conversation row waits for the row lock    *)
(* held by another open transaction, and all pending rows become visible   *)
(* together when the response is returned.                                 *)
(*                                                                         *)
(* Scores are integers in tenths (8 is 0.8); an average is the exact       *)
(* rational <<numerator, denominator>> in tenths, in lowest terms.         *)
(* Text is a sequence of one-character strings; a fixed reply of the       *)
(* service is a one-element sequence holding the whole reply.              *)
(***************************************************************************)
EXTENDS Integers, Sequences, FiniteSets, TLC

(* ------------------------------ bounds -------------------------------- *)

\* Message rows inserted in one behaviour of the one-worker specification.
MaxMsgs == 3

\* Message rows inserted in one behaviour of the two-worker specification.
MaxTurnMsgs == 4

\* Largest value of the wall clock read by timezone.now() before inserts.
MaxTime == 2

\* The conversations and the request workers of the model.
Convs == {1, 2}
Procs == {1, 2}

(* ------------------------------- text --------------------------------- *)

Space == " "

\* str.strip() (views.py:83, ai_service.py:96): drop leading and trailing
\* whitespace.
RECURSIVE LStrip(_)
LStrip(s) ==
    IF s = <<>> THEN <<>>
    ELSE IF Head(s) = Space THEN LStrip(Tail(s)) ELSE s

RECURSIVE RStrip(_)
RStrip(s) ==
    IF s = <<>> THEN <<>>
    ELSE IF s[Len(s)] = Space THEN RStrip(SubSeq(s, 1, Len(s) - 1)) ELSE s

\* (The content taken as sent, were .strip() left out.)
StripNone(s) == s

Strip(s) == RStrip(LStrip(s))

\* Request bodies of send_message: the 'content' field.
Texts == { <<>>, <<" ">>, <<" ", "o", "k", " ">> }

\* settings.MAX_MESSAGE_LENGTH (settings.py:297) and the default max_length
\* of sanitize_input (helpers.py:21).
MAX_MESSAGE_LENGTH == 2000

\* A text one character longer than the maximum, sent with spaces around it.
LongText == [ i \in 1..(MAX_MESSAGE_LENGTH + 1) |-> "a" ]
LongTexts == { <<" ">> \o LongText \o <<" ">> }

\* Content given to Message.objects.create outside a turn.
OrmTexts == { <<"m">> }

(* ----------------------------- averages ------------------------------- *)

Abs(n) == IF n < 0 THEN -n ELSE n

RECURSIVE GCD(_, _)
GCD(a, b) == IF b = 0 THEN a ELSE GCD(b, a % b)

\* The rational n/d (d > 0) in lowest terms.
Frac(n, d) == LET g == GCD(Abs(n), d) IN <<n \div g, d \div g>>

Zero == <<0, 1>>

RECURSIVE SumScores(_)
SumScores(S) ==
    IF S = {} THEN 0
    ELSE LET m == CHOOSE x \in S : TRUE
         IN m.sentiment_score + SumScores(S \ {m})

\* models.Avg('sentiment_score') over a queryset: None on no rows.
None == "None"
Avg(S) == IF S = {} THEN None ELSE Frac(SumScores(S), Cardinality(S))

\* Python's `avg_sentiment or 0.0` (models.py:583).
OrZero(a) == IF a = None \/ a[1] = 0 THEN Zero ELSE a

(* ------------------------- inference endpoint ------------------------- *)

\* What the POST to {api_url}/v1/chat/completions can do (ai_service.py:64-125).
\*   ok         2xx, choices[0].message.content holds text
\*   blank      2xx, the content is whitespace only
\*   nofields   2xx, choices / message / content missing
\*   http400    status 400
\*   http500    status >= 500
\*   http404    another 4xx: raise_for_status raises HTTPError
\*   timeout    requests.exceptions.Timeout
\*   refused    requests.exceptions.ConnectionError
\*   badjson    response.json() raises ValueError
\*   jsonerror  response.json() raises requests' JSONDecodeError, which is
\*              a RequestException too and is caught as one (line 115)
\*   other      any other exception inside chat
Outcomes ==
    { "ok", "blank", "nofields", "http400", "http500", "http404",
      "timeout", "refused", "badjson", "jsonerror", "other" }

FailureOutcomes ==
    { "http400", "http500", "http404", "timeout", "refused", "badjson",
      "jsonerror", "other" }

\* The content field of a 2xx answer, before chat strips it.
HasContent(o) == o \in { "ok", "blank" }
RawReply(o) == IF o = "ok" THEN <<" ", "y", " ">> ELSE <<" ">>

TextInvalidRequest == << "Error: Invalid request to AI service. Please try again." >>
TextServerIssues   == << "Error: AI service is experiencing issues. Please try again." >>
TextNoResponse     == << "Sorry, I couldn't generate a response. Please try again." >>
TextSlow           == << "AI service is slow. Please wait and try again (timeout after 120s)" >>
TextCannotConnect  == << "Cannot connect to AI service. Is LM Studio running at http://192.168.229.1:1234?" >>
TextRequestFailed  == << "Error: Request failed - {e}" >>
TextInvalidFormat  == << "Error: Invalid response format from AI service" >>
TextOtherError     == << "Error: {e}" >>
TextTrouble        == << "I'm having trouble responding right now. Error: {e}" >>

\* The user-safe text of each failure of the endpoint.
FailureText(o) ==
    CASE o = "http400" -> TextInvalidRequest
      [] o = "http500" -> TextServerIssues
      [] o \in { "http404", "jsonerror" } -> TextRequestFailed
      [] o = "timeout" -> TextSlow
      [] o = "refused" -> TextCannotConnect
      [] o = "badjson" -> TextInvalidFormat
      [] OTHER         -> TextOtherError

\* LMStudioService.chat: always returns a string, never raises.
chat(o) ==
    IF o \in FailureOutcomes THEN FailureText(o)
    ELSE IF HasContent(o) /\ Strip(RawReply(o)) # <<>> THEN Strip(RawReply(o))
    ELSE TextNoResponse

\* The status send_message gives the AI message it creates from chat's
\* return value (views.py:133-138) and in its except branch (views.py:144-149).
StatusFailed == "failed"
StatusCompleted == "completed"
AiStatus(o) == StatusCompleted
AiErrorStatus == "error"

\* Message.STATUS_CHOICES (models.py:181-186) and the field default.
STATUS_CHOICES == { "sent", "delivered", "failed", "pending" }
DefaultStatus == "sent"

SENDER_CHOICES == { "user", "ai", "system" }

(* ------------------------- sentiment analyzer ------------------------- *)

\* What the HuggingFace pipeline of SentimentAnalyzer does with a text
\* (analysis_service.py:30-38, 51, 59-60):
\*   none       transformers is not installed or the model failed to load
\*   raises     the pipeline call raises
\*   POSITIVE, NEGATIVE, OTHER   the label of the result
PipelineStates == { "none", "raises", "POSITIVE", "NEGATIVE", "OTHER" }

\* The confidence the pipeline reports with its label, in tenths.
PipelineScore == 8

analyzeErrorSentiment(s) ==
    IF s \in { "none", "raises" }
    THEN [ label     |-> IF s = "none" THEN "NEUTRAL" ELSE "ERROR",
           score     |-> 0,
           sentiment |-> IF s = "none" THEN "neutral" ELSE "error",
           available |-> FALSE ]
    ELSE [ label           |-> s,
           score           |-> PipelineScore,
           sentiment_score |-> CASE s = "POSITIVE" -> PipelineScore
                                 [] s = "NEGATIVE" -> -PipelineScore
                                 [] OTHER          -> 0,
           sentiment       |-> CASE s = "POSITIVE" -> "positive"
                                 [] s = "NEGATIVE" -> "negative"
                                 [] OTHER          -> "neutral",
           available       |-> TRUE ]

\* SentimentAnalyzer.analyze (analysis_service.py:40-91): the dict returned.
analyze(s) ==
    IF s \in { "none", "raises" }
    THEN [ label     |-> IF s = "none" THEN "NEUTRAL" ELSE "ERROR",
           score     |-> 0,
           sentiment |-> "neutral",
           available |-> FALSE ]
    ELSE [ label           |-> s,
           score           |-> PipelineScore,
           sentiment_score |-> CASE s = "POSITIVE" -> PipelineScore
                                 [] s = "NEGATIVE" -> -PipelineScore
                                 [] OTHER          -> 0,
           sentiment       |-> CASE s = "POSITIVE" -> "positive"
                                 [] s = "NEGATIVE" -> "negative"
                                 [] OTHER          -> "neutral",
           available       |-> TRUE ]

(* ------------------------------ database ------------------------------ *)

VARIABLES
    convs,      \* committed Conversation rows, by id
    msgs,       \* committed Message rows
    lock,       \* the open transaction holding each conversation's row lock, or 0
    now,        \* the wall clock
    nextId,     \* next value of Message.id (AutoField)
    budget,     \* message rows the behaviour may still insert
    pc,         \* position of each request worker
    loc,        \* locals of each request worker
    resp        \* the last response each worker returned

vars == <<convs, msgs, lock, now, nextId, budget, pc, loc, resp>>

Null == 0

\* share_token of a conversation that has none (null; `not self.share_token`
\* is true of it, models.py:138).
NoToken == <<>>

\* Conversation.STATUS_CHOICES (models.py:20-24).
CONVERSATION_STATUS_CHOICES == { "active", "archived", "deleted" }

\* uuid.uuid4(): 32 hexadecimal digits, the 13th the version; every other
\* digit of the values drawn here is d.
Uuid4(d) == [ i \in 1..32 |-> IF i = 13 THEN "4" ELSE d ]
Uuids == { Uuid4("a"), Uuid4("b") }

\* str(u) of a UUID: the digits in groups of 8-4-4-4-12 joined by hyphens.
UuidStr(u) ==
    SubSeq(u, 1, 8) \o <<"-">> \o SubSeq(u, 9, 12) \o <<"-">> \o SubSeq(u, 13, 16)
        \o <<"-">> \o SubSeq(u, 17, 20) \o <<"-">> \o SubSeq(u, 21, 32)

\* The length of the slice [:32] and max_length of share_token
\* (models.py:109-115, 140).
TokenLength == 32

\* A Conversation with the field defaults of models.py:50-115, saved at time t.
NewConversation(t) ==
    [ user              |-> Null,
      status            |-> "active",
      is_archived       |-> FALSE,
      is_public         |-> FALSE,
      share_token       |-> NoToken,
      message_count     |-> 0,
      average_sentiment |-> Zero,
      last_message_at   |-> Null,
      updated_at        |-> t ]

ConversationFields ==
    { "user", "status", "is_archived", "is_public", "share_token", "message_count",
      "average_sentiment", "last_message_at", "updated_at" }

\* The null sentiment_label of a message that was not analyzed
\* (models.py:243-253).
NoLabel == "null"

\* A Message row (models.py:189-290); turn is the id of the user message of
\* the send_message call that created the row, 0 for any other row.
NewMessage(id, c, sender, content, status, score, t, turn) ==
    [ id              |-> id,
      conversation    |-> c,
      sender          |-> sender,
      content         |-> content,
      status          |-> status,
      sentiment_score |-> score,
      sentiment_label |-> NoLabel,
      is_liked        |-> FALSE,
      is_disliked     |-> FALSE,
      created_at      |-> t,
      turn            |-> turn ]

\* conversation.messages: the rows of conversation c among the rows ms.
MessagesOf(ms, c) == { m \in ms : m.conversation = c }

\* conversation.messages.count() (models.py:315).
CountMessages(ms, c) == Cardinality(MessagesOf(ms, c))

\* conversation.messages.filter(sender='user').exclude(sentiment_score=0.0)
\* (models.py:577).
AnalyzedUserMessages(ms, c) ==
    { m \in MessagesOf(ms, c) : m.sender = "user" /\ m.sentiment_score # 0 }

\* A queryset slice [:n], a string slice s[:n].
FirstN(q, n) == SubSeq(q, 1, IF Len(q) < n THEN Len(q) ELSE n)

\* The values uuid.uuid4() can return in a save of obj: it is only called
\* for a public object without a token (models.py:138-140).
UuidDraws(obj) ==
    IF obj.is_public /\ obj.share_token = NoToken THEN Uuids ELSE { Uuid4("a") }

\* (The object saved with the flags as given, were the status rule left out.)
ConversationSaveAsGiven(obj, u) ==
    IF obj.is_public /\ obj.share_token = NoToken
    THEN [obj EXCEPT !.share_token = FirstN(UuidStr(u), TokenLength)] ELSE obj

\* Conversation.save (models.py:130-142) on the in-memory object obj, u
\* being the value uuid.uuid4() returns if it is called.
ConversationSave(obj, u) ==
    LET a == IF obj.status = "archived"
             THEN [obj EXCEPT !.is_archived = TRUE] ELSE obj
    IN  IF a.is_public /\ a.share_token = NoToken
        THEN [a EXCEPT !.share_token = FirstN(UuidStr(u), TokenLength)] ELSE a

\* The row written by obj.save(update_fields=fields): the named columns come
\* from the object, every other column keeps the row's value.
UpdateRow(row, obj, fields) ==
    [ f \in ConversationFields |-> IF f \in fields THEN obj[f] ELSE row[f] ]

\* The row written by a plain obj.save(): every column comes from the
\* object, and auto_now stamps updated_at (models.py:94-97).
FullRow(obj, t) == [obj EXCEPT !.updated_at = t]

(* --------------------------- request workers -------------------------- *)

IdleLoc ==
    [ c        |-> 0,
      text     |-> <<>>,
      obj      |-> NewConversation(0),
      ins      |-> {},
      row      |-> NewConversation(0),
      wrote    |-> FALSE,
      phase    |-> "none",
      umsg     |-> 0,
      amsg     |-> 0,
      ctx      |-> <<>>,
      outcome  |-> "none",
      pipeline |-> "none" ]

NoResponse ==
    [ code |-> 0, user_message |-> <<>>, ai_message |-> <<>>, outcome |-> "none",
      pipeline |-> "none" ]

\* The rows a statement of worker p sees: the committed rows and p's own.
Visible(p) == msgs \cup loc[p].ins

\* The conversation row an UPDATE of worker p changes.
RowView(p) == IF loc[p].wrote THEN loc[p].row ELSE convs[loc[p].c]

\* (No wait, were the statements run without the row lock.)
LockIgnored(p, c) == TRUE

\* An UPDATE of conversation c by worker p waits while another open
\* transaction holds the row lock (settings.py:147-157).
CanLock(p, c) == lock[c] \in {0, p}

\* Rows the open turns will still insert.
RECURSIVE Reserved(_)
Reserved(P) ==
    IF P = {} THEN 0
    ELSE LET p == CHOOSE x \in P : TRUE
             n == CASE pc[p] = "create_user" -> 2
                    [] pc[p] \in { "signal_exists", "signal_avg", "signal_write",
                                   "context", "create_ai" } -> 1
                    [] pc[p] \in { "count", "count_write" } /\ loc[p].phase = "user" -> 1
                    [] OTHER -> 0
         IN n + Reserved(P \ {p})

Room(n) == Reserved(Procs) + n <= budget

\* conversation.messages.exclude(id=uid).order_by('created_at')
RECURSIVE OrderByCreated(_)
OrderByCreated(S) ==
    IF S = {} THEN <<>>
    ELSE LET m == CHOOSE x \in S : \A y \in S : x.created_at <= y.created_at
         IN <<m>> \o OrderByCreated(S \ {m})

ContextWindow == 3

Role(m) == IF m.sender = "user" THEN "user" ELSE "assistant"

\* The messages_context send_message builds (views.py:107-125).
BuildContext(ms, c, uid, text) ==
    LET prev == FirstN(OrderByCreated({ m \in MessagesOf(ms, c) : m.id # uid }),
                       ContextWindow)
    IN  [ i \in 1..Len(prev) |-> [ role |-> Role(prev[i]), content |-> prev[i].content ] ]
        \o << [ role |-> "user", content |-> text ] >>

(* ------------------- ConversationViewSet.send_message ----------------- *)

SetLoc(p, f, v) == loc' = [loc EXCEPT ![p][f] = v]

\* views.py:80-89: the request arrives; the conversation is loaded and the
\* content stripped; an empty content is answered 400 before any write.
\* a is the state of the sentiment pipeline while the request is served.
BeginSendMessage(p, c, raw, a) ==
    /\ pc[p] = "idle"
    /\ LET content == Strip(raw)
       IN IF content = <<>>
          THEN /\ resp' = [resp EXCEPT ![p] = [NoResponse EXCEPT !.code = 400]]
               /\ UNCHANGED <<pc, loc>>
          ELSE /\ Room(2)
               /\ loc' = [loc EXCEPT ![p] =
                            [IdleLoc EXCEPT !.c = c, !.text = content, !.obj = convs[c],
                                            !.pipeline = a]]
               /\ pc' = [pc EXCEPT ![p] = "create_user"]
               /\ resp' = [resp EXCEPT ![p] = NoResponse]
    /\ UNCHANGED <<convs, msgs, lock, now, nextId, budget>>

\* views.py:92-96 and the INSERT of Message.save (models.py:311).
CreateUserMessage(p) ==
    /\ pc[p] = "create_user"
    /\ LET m == NewMessage(nextId, loc[p].c, "user", loc[p].text, DefaultStatus,
                           0, now + 1, nextId)
       IN loc' = [loc EXCEPT ![p].ins = @ \cup {m}, ![p].umsg = nextId,
                             ![p].phase = "user"]
    /\ now' = now + 1
    /\ nextId' = nextId + 1
    /\ budget' = budget - 1
    /\ pc' = [pc EXCEPT ![p] = "signal_exists"]
    /\ UNCHANGED <<convs, msgs, lock, resp>>

\* models.py:575-579: the post_save receiver, for a created user message.
SignalExists(p) ==
    /\ pc[p] = "signal_exists"
    /\ pc' = [pc EXCEPT ![p] =
                IF AnalyzedUserMessages(Visible(p), loc[p].c) # {}
                THEN "signal_avg" ELSE "count"]
    /\ UNCHANGED <<convs, msgs, lock, now, nextId, budget, loc, resp>>

\* models.py:580-583.
SignalAvg(p) ==
    /\ pc[p] = "signal_avg"
    /\ loc' = [loc EXCEPT ![p].obj.average_sentiment =
                 OrZero(Avg(AnalyzedUserMessages(Visible(p), loc[p].c)))]
    /\ pc' = [pc EXCEPT ![p] = "signal_write"]
    /\ UNCHANGED <<convs, msgs, lock, now, nextId, budget, resp>>

\* models.py:584.
SignalWrite(p) ==
    /\ pc[p] = "signal_write"
    /\ CanLock(p, loc[p].c)
    /\ \E u \in UuidDraws(loc[p].obj) :
         LET obj == ConversationSave(loc[p].obj, u)
         IN loc' = [loc EXCEPT ![p].obj = obj, ![p].wrote = TRUE,
                               ![p].row = UpdateRow(RowView(p), obj, {"average_sentiment"})]
    /\ lock' = [lock EXCEPT ![loc[p].c] = p]
    /\ pc' = [pc EXCEPT ![p] = "count"]
    /\ UNCHANGED <<convs, msgs, now, nextId, budget, resp>>

\* models.py:314-316.
HookCount(p) ==
    /\ pc[p] = "count"
    /\ loc' = [loc EXCEPT ![p].obj.message_count = CountMessages(Visible(p), loc[p].c),
                          ![p].obj.last_message_at = now]
    /\ pc' = [pc EXCEPT ![p] = "count_write"]
    /\ UNCHANGED <<convs, msgs, lock, now, nextId, budget, resp>>

\* models.py:317.
HookFields == { "message_count", "last_message_at" }
HookWrite(p) ==
    /\ pc[p] = "count_write"
    /\ CanLock(p, loc[p].c)
    /\ \E u \in UuidDraws(loc[p].obj) :
         LET obj == ConversationSave(loc[p].obj, u)
         IN loc' = [loc EXCEPT ![p].obj = obj, ![p].wrote = TRUE,
                               ![p].row = UpdateRow(RowView(p), obj, HookFields)]
    /\ lock' = [lock EXCEPT ![loc[p].c] = p]
    /\ pc' = [pc EXCEPT ![p] = IF loc[p].phase = "user" THEN "context" ELSE "touch"]
    /\ UNCHANGED <<convs, msgs, now, nextId, budget, resp>>

\* views.py:107-125.
Context(p) ==
    /\ pc[p] = "context"
    /\ SetLoc(p, "ctx", BuildContext(Visible(p), loc[p].c, loc[p].umsg, loc[p].text))
    /\ pc' = [pc EXCEPT ![p] = "create_ai"]
    /\ UNCHANGED <<convs, msgs, lock, now, nextId, budget, resp>>

\* views.py:130-138: the endpoint answers (or fails) and the AI message is
\* inserted with what chat returned.
\* (No row for a failed call, were the failure to end the turn.)
CreatedAiUnlessFailed(p, o) ==
    IF o \in FailureOutcomes THEN {}
    ELSE { NewMessage(nextId, loc[p].c, "ai", chat(o), AiStatus(o),
                      0, now + 1, loc[p].umsg) }

CreatedAi(p, o) ==
    { NewMessage(nextId, loc[p].c, "ai", chat(o), AiStatus(o),
                 0, now + 1, loc[p].umsg) }

CreateAiMessage(p, o) ==
    /\ pc[p] = "create_ai"
    /\ loc' = [loc EXCEPT ![p].ins = @ \cup CreatedAi(p, o), ![p].amsg = nextId,
                          ![p].phase = "ai", ![p].outcome = o]
    /\ now' = now + 1
    /\ nextId' = nextId + 1
    /\ budget' = budget - 1
    /\ pc' = [pc EXCEPT ![p] = "count"]
    /\ UNCHANGED <<convs, msgs, lock, resp>>

\* views.py:141-149: anything raised inside the try block (the service
\* cannot be imported or constructed) ends in the except branch.
CreateAiErrorMessage(p) ==
    /\ pc[p] = "create_ai"
    /\ LET m == NewMessage(nextId, loc[p].c, "ai", TextTrouble, AiErrorStatus,
                           0, now + 1, loc[p].umsg)
       IN loc' = [loc EXCEPT ![p].ins = @ \cup {m}, ![p].amsg = nextId,
                             ![p].phase = "ai", ![p].outcome = "raised"]
    /\ now' = now + 1
    /\ nextId' = nextId + 1
    /\ budget' = budget - 1
    /\ pc' = [pc EXCEPT ![p] = "count"]
    /\ UNCHANGED <<convs, msgs, lock, resp>>

\* views.py:152-153: conversation.save() of the in-memory object.
\* (The object with the count it was loaded with, had Message.save updated
\* another instance of the conversation.)
TouchObjectStale(p) ==
    [loc[p].obj EXCEPT !.message_count = convs[loc[p].c].message_count]

TouchObject(p) == loc[p].obj
TouchConversation(p) ==
    /\ pc[p] = "touch"
    /\ CanLock(p, loc[p].c)
    /\ \E u \in UuidDraws(loc[p].obj) :
         LET obj == ConversationSave([TouchObject(p) EXCEPT !.last_message_at = now], u)
         IN loc' = [loc EXCEPT ![p].obj = obj, ![p].wrote = TRUE,
                               ![p].row = FullRow(obj, now)]
    /\ lock' = [lock EXCEPT ![loc[p].c] = p]
    /\ pc' = [pc EXCEPT ![p] = "respond"]
    /\ UNCHANGED <<convs, msgs, now, nextId, budget, resp>>

\* MessageSerializer(message).data of a message object of the request;
\* the key is left out when there is no such object (views.py:161-162).
RECURSIVE AsSeq(_)
AsSeq(S) ==
    IF S = {} THEN <<>>
    ELSE LET m == CHOOSE x \in S : TRUE IN <<m>> \o AsSeq(S \ {m})

PendingMessage(p, id) == AsSeq({ m \in loc[p].ins : m.id = id })

\* (Every row, were the UPDATE issued without its WHERE clause.)
UpdatedRowsAll(p) == Convs

\* The conversation rows the UPDATEs of worker p's request were issued for:
\* the instance's own row (models.py:317, 584, views.py:153).
UpdatedRows(p) == { loc[p].c }

\* views.py:156-164: the 201 response is returned and the request's
\* transaction commits.
Respond(p) ==
    /\ pc[p] = "respond"
    /\ msgs' = msgs \cup loc[p].ins
    /\ convs' = [c \in Convs |-> IF c \in UpdatedRows(p) THEN RowView(p) ELSE convs[c]]
    /\ lock' = [lock EXCEPT ![loc[p].c] = IF @ = p THEN 0 ELSE @]
    /\ resp' = [resp EXCEPT ![p] =
                  [ code         |-> 201,
                    user_message |-> PendingMessage(p, loc[p].umsg),
                    ai_message   |-> PendingMessage(p, loc[p].amsg),
                    outcome      |-> loc[p].outcome,
                    pipeline     |-> loc[p].pipeline ]]
    /\ pc' = [pc EXCEPT ![p] = "idle"]
    /\ loc' = [loc EXCEPT ![p] = IdleLoc]
    /\ UNCHANGED <<now, nextId, budget>>

\* Time passes between two statements, up to the clock value n.
TickUntil(n) ==
    /\ now < n
    /\ now' = now + 1
    /\ UNCHANGED <<convs, msgs, lock, nextId, budget, pc, loc, resp>>

Tick == TickUntil(MaxTime)

(* ---------------- Message rows written outside a turn ------------------ *)

\* sentiment_score values given to Message.objects.create or set on a row
\* before save (tests/test_models.py:269-275), in tenths.
Scores == { -2, 0, 8 }

\* The <<sender, sentiment_score>> of the rows created outside a turn.
OrmKinds == { <<"user", -2>>, <<"user", 0>>, <<"user", 8>>, <<"ai", 8>> }

\* The sentiment_score set on a persisted row before it is saved again.
SaveScores == { 0, 8 }

\* Conversations the concurrent turns start from.
ConcHistories ==
    { <<>>, << <<"user", 8>> >>, << <<"user", 8>>, <<"ai", 8>>, <<"user", -2>> >> }

\* An empty conversation and one that holds an analyzed user message.
FairHistories == { <<>>, << <<"user", 8>> >> }

\* The post_save receiver (models.py:570-584) run on the in-memory
\* conversation obj after message m was saved; ms are the rows it sees.
SignalRuns(m, created) == created /\ m.sender = "user"

SentimentSignal(obj, row, ms, m, created, u) ==
    LET A == AnalyzedUserMessages(ms, m.conversation)
    IN  IF SignalRuns(m, created) /\ A # {}
        THEN LET o == ConversationSave([obj EXCEPT !.average_sentiment = OrZero(Avg(A))], u)
             IN  << o, UpdateRow(row, o, {"average_sentiment"}) >>
        ELSE << obj, row >>

\* The tail of Message.save (models.py:314-317) at time t.
SaveHook(obj, row, ms, c, t, u) ==
    LET o == ConversationSave([obj EXCEPT !.message_count = CountMessages(ms, c),
                                          !.last_message_at = t], u)
    IN  << o, UpdateRow(row, o, HookFields) >>

\* Message.objects.create(conversation=c, sender=..., content=...,
\* sentiment_score=...) as one committed transaction (MessageViewSet.create,
\* tests/test_models.py): INSERT, post_save receiver, save hook.
CreateMessage(c, sender, content, score) ==
    /\ lock[c] = 0
    /\ Room(1)
    /\ \E u \in UuidDraws(convs[c]) :
         LET t   == now + 1
             m   == NewMessage(nextId, c, sender, content, DefaultStatus, score, t, 0)
             ms  == msgs \cup {m}
             sig == SentimentSignal(convs[c], convs[c], ms, m, TRUE, u)
             hk  == SaveHook(sig[1], sig[2], ms, c, t, u)
         IN /\ msgs' = ms
            /\ convs' = [convs EXCEPT ![c] = hk[2]]
            /\ now' = t
    /\ nextId' = nextId + 1
    /\ budget' = budget - 1
    /\ UNCHANGED <<lock, pc, loc, resp>>

\* message.<field> = value; message.save() on a persisted row
\* (tests/test_models.py:259-265): UPDATE, post_save receiver with
\* created=False, save hook on the freshly loaded conversation.
SaveMessage(id, score) ==
    /\ \E m \in msgs :
         /\ m.id = id
         /\ lock[m.conversation] = 0
         /\ \E u \in UuidDraws(convs[m.conversation]) :
              LET m2  == [m EXCEPT !.sentiment_score = score]
                  ms  == (msgs \ {m}) \cup {m2}
                  c   == m.conversation
                  sig == SentimentSignal(convs[c], convs[c], ms, m2, FALSE, u)
                  hk  == SaveHook(sig[1], sig[2], ms, c, now, u)
              IN /\ msgs' = ms
                 /\ convs' = [convs EXCEPT ![c] = hk[2]]
    /\ UNCHANGED <<lock, now, nextId, budget, pc, loc, resp>>

\* An UPDATE of the persisted row m to m2 by Message.save
\* (models.py:306-317) as one committed transaction: the post_save receiver
\* runs with created=False, then the save hook on the conversation.
SaveExisting(m, m2) ==
    /\ m \in msgs
    /\ lock[m.conversation] = 0
    /\ \E u \in UuidDraws(convs[m.conversation]) :
         LET ms  == (msgs \ {m}) \cup {m2}
             c   == m.conversation
             sig == SentimentSignal(convs[c], convs[c], ms, m2, FALSE, u)
             hk  == SaveHook(sig[1], sig[2], ms, c, now, u)
         IN /\ msgs' = ms
            /\ convs' = [convs EXCEPT ![c] = hk[2]]
    /\ UNCHANGED <<lock, now, nextId, budget, pc, loc, resp>>

\* The reaction flags MessageUpdateSerializer accepts (serializers.py:71-76).
ReactionFlags == { "is_liked", "is_disliked" }

\* MessageViewSet.update / partial_update (views.py:208-227): PUT or PATCH
\* of a reaction flag; serializer.save() ends in Message.save.
UpdateMessage(id, flag, v) ==
    \E m \in msgs :
        /\ m.id = id
        /\ m[flag] # v
        /\ SaveExisting(m, [m EXCEPT ![flag] = v])

\* message.status = status; message.save() (tests/test_models.py:259-265).
SaveMessageStatus(id, status) ==
    \E m \in msgs :
        /\ m.id = id
        /\ m.status # status
        /\ SaveExisting(m, [m EXCEPT !.status = status])

\* MessageViewSet.destroy (views.py:208, ModelViewSet): the row is deleted;
\* no code runs on the conversation.
DeleteMessage(id) ==
    /\ \E m \in msgs : m.id = id /\ msgs' = msgs \ {m}
    /\ UNCHANGED <<convs, lock, now, nextId, budget, pc, loc, resp>>

(* ------------------------ conversation requests ----------------------- *)

\* The object after the fields of ch were assigned on it (the setattr loop
\* of ModelSerializer.update, an attribute assignment).
SetFields(obj, ch) ==
    [ f \in ConversationFields |-> IF f \in DOMAIN ch THEN ch[f] ELSE obj[f] ]

\* Bodies of PUT/PATCH /conversations/{id}/ : ConversationUpdateSerializer
\* (serializers.py:235-255) accepts status and is_archived independently.
ApiUpdates ==
    { [status |-> st] : st \in CONVERSATION_STATUS_CHOICES }
        \cup { [is_archived |-> b] : b \in BOOLEAN }
        \cup { [status |-> st, is_archived |-> b] :
                  st \in CONVERSATION_STATUS_CHOICES, b \in BOOLEAN }

\* A request on conversation c: get_object loads the row and the fields of
\* ch are set on the object.
BeginConversationRequest(p, c, ch) ==
    /\ pc[p] = "idle"
    /\ loc' = [loc EXCEPT ![p] = [IdleLoc EXCEPT !.c = c, !.obj = SetFields(convs[c], ch)]]
    /\ pc' = [pc EXCEPT ![p] = "save_conversation"]
    /\ resp' = [resp EXCEPT ![p] = NoResponse]
    /\ UNCHANGED <<convs, msgs, lock, now, nextId, budget>>

\* ConversationViewSet.update / partial_update (views.py:33-58).
UpdateConversation(p, c, ch) == BeginConversationRequest(p, c, ch)

\* ConversationViewSet.end_conversation (views.py:173-180).
EndConversation(p, c) ==
    BeginConversationRequest(p, c, [status |-> "archived", is_archived |-> TRUE])

\* conversation.is_public = b on a loaded object, as the admin form does
\* (admin.py:43-46, tests/test_models.py:108-109).
SetPublic(p, c, b) == BeginConversationRequest(p, c, [is_public |-> b])

\* conversation.save() of the request's object: every column is written,
\* and the transaction commits with the response.
SaveConversation(p) ==
    /\ pc[p] = "save_conversation"
    /\ CanLock(p, loc[p].c)
    /\ \E u \in UuidDraws(loc[p].obj) :
         convs' = [convs EXCEPT ![loc[p].c] = FullRow(ConversationSave(loc[p].obj, u), now)]
    /\ pc' = [pc EXCEPT ![p] = "idle"]
    /\ loc' = [loc EXCEPT ![p] = IdleLoc]
    /\ resp' = [resp EXCEPT ![p] = [NoResponse EXCEPT !.code = 200]]
    /\ UNCHANGED <<msgs, lock, now, nextId, budget>>

(* --------------------------- specifications --------------------------- *)

\* The committed state after the messages of history h (a sequence of
\* <<sender, score>>) were created one by one in conversation 1, with b
\* further inserts allowed.
Digit == << "1", "2", "3", "4", "5", "6", "7", "8", "9" >>

HistoryMessages(h) ==
    { NewMessage(i, 1, h[i][1], <<"m", Digit[i]>>, DefaultStatus, h[i][2], i + 1, 0) :
        i \in 1..Len(h) }

InitWith(h, b) ==
    /\ msgs = HistoryMessages(h)
    /\ convs = [c \in Convs |->
                 IF c = 1 /\ h # <<>>
                 THEN [NewConversation(1) EXCEPT
                         !.message_count = Len(h),
                         !.average_sentiment =
                             OrZero(Avg(AnalyzedUserMessages(HistoryMessages(h), 1))),
                         !.last_message_at = Len(h) + 1]
                 ELSE NewConversation(1)]
    /\ lock = [c \in Convs |-> 0]
    /\ now = Len(h) + 1
    /\ nextId = Len(h) + 1
    /\ budget = b
    /\ pc = [p \in Procs |-> "idle"]
    /\ loc = [p \in Procs |-> IdleLoc]
    /\ resp = [p \in Procs |-> NoResponse]

Init == InitWith(<<>>, MaxMsgs)

\* The steps of one send_message request of worker p on a conversation of
\* C with a text of T, the sentiment pipeline in a state of A and the
\* endpoint answering with one of O.
TurnOf(p, C, T, A, O) ==
    \/ \E c \in C, raw \in T, a \in A : BeginSendMessage(p, c, raw, a)
    \/ CreateUserMessage(p)
    \/ SignalExists(p)
    \/ SignalAvg(p)
    \/ SignalWrite(p)
    \/ HookCount(p)
    \/ HookWrite(p)
    \/ Context(p)
    \/ \E o \in O : CreateAiMessage(p, o)
    \/ CreateAiErrorMessage(p)
    \/ TouchConversation(p)
    \/ Respond(p)

\* A turn on conversation 1 while the sentiment pipeline is not loaded.
Turn(p, O) == TurnOf(p, {1}, Texts, {"none"}, O)

\* One worker serving turns, with message rows created, saved and deleted
\* by other committed transactions in between.
Next ==
    \/ Turn(1, {"ok", "refused"})
    \/ \E k \in OrmKinds, content \in OrmTexts :
         CreateMessage(1, k[1], content, k[2])
    \/ \E m \in msgs, score \in SaveScores : SaveMessage(m.id, score)
    \/ \E m \in msgs : DeleteMessage(m.id)
    \/ Tick

Spec == Init /\ [][Next]_vars

\* One worker serving turns while the sentiment pipeline is loaded or not,
\* with texts up to one character over the maximum length; messages are
\* created, and their reaction flags and status updated, by other committed
\* transactions in between.
ApiBudget == 2
ApiMaxTime == 3
ApiTexts == { <<" ">>, <<"o", "k">> } \cup LongTexts
ApiPipelines == { "none", "POSITIVE" }
ApiStatuses == { "sent", "delivered" }
ApiFlags == { "is_liked" }

ApiNext ==
    \/ TurnOf(1, {1}, ApiTexts, ApiPipelines, {"ok", "refused"})
    \/ \E content \in OrmTexts : CreateMessage(1, "user", content, 0)
    \/ \E m \in msgs, flag \in ApiFlags, v \in BOOLEAN : UpdateMessage(m.id, flag, v)
    \/ \E m \in msgs, status \in ApiStatuses : SaveMessageStatus(m.id, status)
    \/ TickUntil(ApiMaxTime)

ApiInit == \E h \in FairHistories : InitWith(h, ApiBudget)

ApiSpec == ApiInit /\ [][ApiNext]_vars

\* The requests of MessageViewSet on the messages of conversation 1:
\* create, update of either reaction flag, destroy.
MsgBudget == 2

MsgNext ==
    \/ \E sender \in { "user", "ai" }, content \in OrmTexts :
         CreateMessage(1, sender, content, 0)
    \/ \E m \in msgs, flag \in ReactionFlags, v \in BOOLEAN : UpdateMessage(m.id, flag, v)
    \/ \E m \in msgs : DeleteMessage(m.id)

MsgInit == \E h \in FairHistories : InitWith(h, MsgBudget)

MsgSpec == MsgInit /\ [][MsgNext]_vars

\* The read requests of ConversationViewSet. Users are the accounts that
\* own conversations and send requests; every conversation of ViewSpec has
\* an owner.
Users == { 1, 2 }

\* ConversationViewSet.get_queryset: the rows a request of user u works on.
get_queryset(u) == Convs

\* GET /conversations/ as user u: the rows of the queryset.
ListConversations(p, u) ==
    /\ pc[p] = "idle"
    /\ resp' = [resp EXCEPT ![p] =
                  [ action |-> "list", user |-> u, code |-> 200,
                    results |-> get_queryset(u) ]]
    /\ UNCHANGED <<convs, msgs, lock, now, nextId, budget, pc, loc>>

\* GET /conversations/<c>/ as user u: get_object looks the row up in the
\* queryset and answers 404 when it is not there.
RetrieveConversation(p, u, c) ==
    /\ pc[p] = "idle"
    /\ resp' = [resp EXCEPT ![p] =
                  [ action |-> "retrieve", user |-> u, id |-> c,
                    code |-> IF c \in get_queryset(u) THEN 200 ELSE 404 ]]
    /\ UNCHANGED <<convs, msgs, lock, now, nextId, budget, pc, loc>>

ViewNext ==
    \/ \E p \in Procs, u \in Users : ListConversations(p, u)
    \/ \E p \in Procs, u \in Users, c \in Convs : RetrieveConversation(p, u, c)

ViewInit ==
    \E owner \in [Convs -> Users] :
        /\ convs = [c \in Convs |-> [NewConversation(1) EXCEPT !.user = owner[c]]]
        /\ msgs = {}
        /\ lock = [c \in Convs |-> 0]
        /\ now = 1
        /\ nextId = 1
        /\ budget = 0
        /\ pc = [p \in Procs |-> "idle"]
        /\ loc = [p \in Procs |-> IdleLoc]
        /\ resp = [p \in Procs |-> NoResponse]

ViewSpec == ViewInit /\ [][ViewNext]_vars

(* --------------------------- topic extraction --------------------------- *)

\* Texts given to the services are strings; a character is a string of
\* length one.
Uppercase == "ABCDEFGHIJKLMNOPQRSTUVWXYZ"
Lowercase == "abcdefghijklmnopqrstuvwxyz"

CharAt(t, i) == SubSeq(t, i, i)

\* str.lower and str.upper on one character.
MapChar(ch, from, to) ==
    IF \E i \in 1..Len(from) : CharAt(from, i) = ch
    THEN CharAt(to, CHOOSE i \in 1..Len(from) : CharAt(from, i) = ch)
    ELSE ch

RECURSIVE lower(_)
lower(t) ==
    IF Len(t) = 0 THEN ""
    ELSE MapChar(CharAt(t, 1), Uppercase, Lowercase) \o lower(SubSeq(t, 2, Len(t)))

\* str.capitalize: the first character upper-cased, the rest lower-cased.
capitalize(t) ==
    IF Len(t) = 0 THEN ""
    ELSE MapChar(CharAt(t, 1), Lowercase, Uppercase) \o lower(SubSeq(t, 2, Len(t)))

\* Python's  k in t  on strings.
In(k, t) == \E i \in 1..(Len(t) - Len(k) + 1) : SubSeq(t, i, i + Len(k) - 1) = k

\* TopicExtractor.topics, in the insertion order of the dict.
topics ==
    << [ category |-> "technical",
         keywords |-> << "code", "programming", "development", "debugging",
                         "error", "bug", "api", "database" >> ],
       [ category |-> "general",
         keywords |-> << "hello", "hi", "how", "what", "why", "when", "where" >> ],
       [ category |-> "business",
         keywords |-> << "project", "deadline", "meeting", "budget", "plan",
                         "strategy", "goal" >> ],
       [ category |-> "science",
         keywords |-> << "research", "study", "experiment", "data", "analysis",
                         "result", "theory" >> ] >>

\* sum(1 for keyword in keywords if keyword in text_lower)
KeywordScore(keywords, text_lower) ==
    Cardinality({ i \in 1..Len(keywords) : In(keywords[i], text_lower) })

\* topic_scores.items(): the categories with a positive score, in insertion
\* order, as <<category, score>>.
RECURSIVE topic_scores(_, _)
topic_scores(table, text_lower) ==
    IF table = <<>> THEN <<>>
    ELSE LET score == KeywordScore(Head(table).keywords, text_lower)
             rest  == topic_scores(Tail(table), text_lower)
         IN  IF score > 0 THEN << <<Head(table).category, score>> >> \o rest ELSE rest

\* sorted(items, key=lambda x: x[1], reverse=True): a stable sort, items of
\* equal score keep their order.
RECURSIVE InsertByScore(_, _)
InsertByScore(x, sorted) ==
    IF sorted = <<>> THEN << x >>
    ELSE IF Head(sorted)[2] >= x[2]
         THEN << Head(sorted) >> \o InsertByScore(x, Tail(sorted))
         ELSE << x >> \o sorted

RECURSIVE SortByScore(_)
SortByScore(items) ==
    IF items = <<>> THEN <<>>
    ELSE LET front == SubSeq(items, 1, Len(items) - 1)
         IN  InsertByScore(items[Len(items)], SortByScore(front))

\* A bound of a Python slice on a sequence of length n.
SliceBound(i, n) ==
    IF i < 0 THEN (IF i + n < 0 THEN 0 ELSE i + n)
    ELSE IF i > n THEN n ELSE i

\* seq[a:b]
Slice(seq, a, b) == SubSeq(seq, SliceBound(a, Len(seq)) + 1, SliceBound(b, Len(seq)))

\* [kw for kw in keywords if kw in text_lower]
KeywordsIn(keywords, text_lower) == SelectSeq(keywords, LAMBDA kw : In(kw, text_lower))

TopicOf(category) == CHOOSE i \in 1..Len(topics) : topics[i].category = category

\* The confidence of the fallback result, in tenths.
FallbackConfidence == 3

\* TopicExtractor.extract_topics; confidence in tenths: min(score / 10, 1.0)
\* is min(score, 10) tenths.
extract_topics(text, top_k) ==
    LET text_lower    == lower(text)
        sorted_topics == SortByScore(topic_scores(topics, text_lower))
    IN  IF sorted_topics = <<>>
        THEN [ primary_topic    |-> "general",
               secondary_topics |-> <<>>,
               keywords         |-> <<>>,
               category         |-> "General",
               confidence       |-> FallbackConfidence ]
        ELSE LET primary == sorted_topics[1][1]
                 rest    == IF Len(sorted_topics) > 1
                            THEN Slice(sorted_topics, 1, top_k) ELSE <<>>
             IN  [ primary_topic    |-> primary,
                   secondary_topics |-> [ i \in 1..Len(rest) |-> rest[i][1] ],
                   keywords         |-> KeywordsIn(topics[TopicOf(primary)].keywords,
                                                   text_lower),
                   category         |-> capitalize(primary),
                   confidence       |-> IF sorted_topics[1][2] < 10
                                        THEN sorted_topics[1][2] ELSE 10 ]

\* The texts: up to MaxWords words separated by blanks.
MaxWords == 3
TopicWords == { "debug", "API", "database", "plan", "research", "Hello", "xyz" }

RECURSIVE Join(_)
Join(ws) ==
    IF ws = <<>> THEN ""
    ELSE IF Len(ws) = 1 THEN ws[1]
    ELSE ws[1] \o " " \o Join(Tail(ws))

TopicTexts == { Join(ws) : ws \in UNION { [1..n -> TopicWords] : n \in 0..MaxWords } }

MaxTopK == 4
TopKs == -1..MaxTopK

\* A call of extract_topics by worker p; budget counts the calls left.
ExtractTopics(p, text, top_k) ==
    /\ pc[p] = "idle"
    /\ budget > 0
    /\ budget' = budget - 1
    /\ resp' = [resp EXCEPT ![p] =
                  [ action |-> "extract_topics", text |-> text, top_k |-> top_k,
                    result |-> extract_topics(text, top_k) ]]
    /\ UNCHANGED <<convs, msgs, lock, now, nextId, pc, loc>>

TopicNext == \E text \in TopicTexts, top_k \in TopKs : ExtractTopics(1, text, top_k)

ServiceCalls == 1

ServiceInit == InitWith(<<>>, ServiceCalls)

TopicSpec == ServiceInit /\ [][TopicNext]_vars

(* --------------------------- sentiment service --------------------------- *)

\* SentimentAnalyzer.batch_analyze: analyze applied to each text; ss[i] is
\* what the pipeline does with the i-th text.
batch_analyze(ss) == [ i \in 1..Len(ss) |-> analyze(ss[i]) ]

\* What the pipeline does with the texts of one batch: without a pipeline
\* every call finds none, with a pipeline each call raises or answers.
MaxBatch == 3
Batches ==
    UNION { [1..n -> {"none"}] \cup [1..n -> PipelineStates \ {"none"}] : n \in 0..MaxBatch }

SentimentTexts == { "", "ok" }

\* A call of analyze by worker p; s is what the pipeline does with the
\* first 512 characters of the text.
Analyze(p, text, s) ==
    /\ pc[p] = "idle"
    /\ budget > 0
    /\ budget' = budget - 1
    /\ resp' = [resp EXCEPT ![p] =
                  [ action |-> "analyze", text |-> text, pipeline |-> s,
                    result |-> analyze(s) ]]
    /\ UNCHANGED <<convs, msgs, lock, now, nextId, pc, loc>>

\* A call of batch_analyze by worker p.
BatchAnalyze(p, ss) ==
    /\ pc[p] = "idle"
    /\ budget > 0
    /\ budget' = budget - 1
    /\ resp' = [resp EXCEPT ![p] =
                  [ action |-> "batch_analyze", pipelines |-> ss,
                    results |-> batch_analyze(ss) ]]
    /\ UNCHANGED <<convs, msgs, lock, now, nextId, pc, loc>>

SentimentNext ==
    \/ \E p \in Procs, text \in SentimentTexts, s \in PipelineStates : Analyze(p, text, s)
    \/ \E p \in Procs, ss \in Batches : BatchAnalyze(p, ss)

SentimentSpec == ServiceInit /\ [][SentimentNext]_vars

(* ------------------------------- export ------------------------------- *)

\* Python values, tagged with their type.
PyInt(n)      == [ t |-> "int", v |-> n ]
PyStr(x)      == [ t |-> "str", v |-> x ]
PyNone        == [ t |-> "NoneType" ]
PyDatetime(n) == [ t |-> "datetime", v |-> n ]

\* str(value) of a value json cannot encode (json.dumps(..., default=str)).
str(v) == "T" \o Digit[v.v]

\* json.dumps of one value: the JSON value written.
dumps(v) ==
    CASE v.t = "int"      -> [ j |-> "number", v |-> v.v ]
      [] v.t = "str"      -> [ j |-> "string", v |-> v.v ]
      [] v.t = "NoneType" -> [ j |-> "null" ]
      [] OTHER            -> [ j |-> "string", v |-> str(v) ]

\* json.loads of one JSON value.
loads(j) ==
    CASE j.j = "number" -> PyInt(j.v)
      [] j.j = "string" -> PyStr(j.v)
      [] OTHER          -> PyNone

\* dict.get(key)
Get(d, key) == IF key \in DOMAIN d THEN d[key] ELSE PyNone

ExportedConversationKeys ==
    { "id", "title", "summary", "topic", "created_at", "updated_at",
      "message_count", "average_sentiment" }

\* ExportService.export_to_json: the JSON document written, by key.
export_to_json(conversation, messages) ==
    [ conversation |->
          [ k \in ExportedConversationKeys |->
              IF k = "message_count" THEN dumps(PyInt(Len(messages)))
              ELSE dumps(Get(conversation, k)) ],
      messages |->
          [ i \in 1..Len(messages) |->
              [ k \in DOMAIN messages[i] |-> dumps(messages[i][k]) ] ],
      export_format |-> dumps(PyStr("json")) ]

\* json.loads of the document.
ParseExport(doc) ==
    [ conversation |->
          [ k \in DOMAIN doc.conversation |-> loads(doc.conversation[k]) ],
      messages |->
          [ i \in 1..Len(doc.messages) |->
              [ k \in DOMAIN doc.messages[i] |-> loads(doc.messages[i][k]) ] ],
      export_format |-> loads(doc.export_format) ]

\* The data of conversation c and of its messages, as dicts; the title is
\* the row's title (models.py:36-41), which no other request of the model
\* reads.
Titles == { "Untitled Conversation", "a" }

ConversationData(c, title) ==
    [ id            |-> PyInt(c),
      title         |-> PyStr(title),
      updated_at    |-> PyDatetime(convs[c].updated_at),
      message_count |-> PyInt(convs[c].message_count) ]

MessageData(m) ==
    [ id |-> PyInt(m.id), sender |-> PyStr(m.sender), created_at |-> PyDatetime(m.created_at) ]

MessageList(c) ==
    LET ordered == OrderByCreated(MessagesOf(msgs, c))
    IN  [ i \in 1..Len(ordered) |-> MessageData(ordered[i]) ]

\* An export of conversation c by worker p, parsed back by the receiver.
ExportConversation(p, c, title) ==
    /\ pc[p] = "idle"
    /\ lock[c] = 0
    /\ resp' = [resp EXCEPT ![p] =
                  [ action       |-> "export_to_json",
                    conversation |-> ConversationData(c, title),
                    parsed       |-> ParseExport(export_to_json(ConversationData(c, title),
                                                                MessageList(c))) ]]
    /\ UNCHANGED <<convs, msgs, lock, now, nextId, budget, pc, loc>>

ExportBudget == 2

ExportNext ==
    \/ \E sender \in { "user", "ai" }, content \in OrmTexts :
         CreateMessage(1, sender, content, 0)
    \/ \E m \in msgs : DeleteMessage(m.id)
    \/ \E title \in Titles : ExportConversation(1, 1, title)

ExportInit == \E h \in FairHistories : InitWith(h, ExportBudget)

ExportSpec == ExportInit /\ [][ExportNext]_vars

(* -------------------------------- retry -------------------------------- *)

\* A call of a function wrapped by retry(max_attempts, delay), run by worker
\* p: the wrapper's locals, the outcomes of the calls of the function made so
\* far and the durations slept so far.
BeginRetry(p, max_attempts, delay) ==
    /\ pc[p] = "idle"
    /\ budget > 0
    /\ budget' = budget - 1
    /\ pc' = [pc EXCEPT ![p] = "retry_while"]
    /\ loc' = [loc EXCEPT ![p] =
                 [ max_attempts  |-> max_attempts,
                   delay         |-> delay,
                   attempt       |-> 1,
                   current_delay |-> delay,
                   calls         |-> <<>>,
                   sleeps        |-> <<>> ]]
    /\ UNCHANGED <<convs, msgs, lock, now, nextId, resp>>

\* The wrapper is left: what it returned or raised, with the calls and the
\* sleeps it made.
RetryDone(p, calls, outcome) ==
    /\ pc' = [pc EXCEPT ![p] = "idle"]
    /\ loc' = [loc EXCEPT ![p] = IdleLoc]
    /\ resp' = [resp EXCEPT ![p] =
                  [ action       |-> "retry",
                    max_attempts |-> loc[p].max_attempts,
                    delay        |-> loc[p].delay,
                    calls        |-> calls,
                    sleeps       |-> loc[p].sleeps,
                    outcome      |-> outcome ]]

\* while attempt <= max_attempts: return func(...), the call returns or
\* raises; the last attempt's exception is re-raised.
RetryCall(p, raises) ==
    /\ pc[p] = "retry_while"
    /\ loc[p].attempt <= loc[p].max_attempts
    /\ LET calls == Append(loc[p].calls, IF raises THEN "raised" ELSE "returned")
       IN  IF ~raises
           THEN RetryDone(p, calls, [ kind |-> "result", call |-> Len(calls) ])
           ELSE IF loc[p].attempt = loc[p].max_attempts
           THEN RetryDone(p, calls, [ kind |-> "exception", call |-> Len(calls) ])
           ELSE /\ pc' = [pc EXCEPT ![p] = "retry_sleep"]
                /\ loc' = [loc EXCEPT ![p].calls = calls]
                /\ UNCHANGED resp
    /\ UNCHANGED <<convs, msgs, lock, now, nextId, budget>>

\* time.sleep(current_delay); current_delay *= 2; attempt += 1
RetrySleep(p) ==
    /\ pc[p] = "retry_sleep"
    /\ pc' = [pc EXCEPT ![p] = "retry_while"]
    /\ loc' = [loc EXCEPT ![p].sleeps = Append(@, loc[p].current_delay),
                          ![p].current_delay = 2 * @,
                          ![p].attempt = @ + 1]
    /\ UNCHANGED <<convs, msgs, lock, now, nextId, budget, resp>>

\* The while loop ends without a return: the wrapper returns None.
RetryFallThrough(p) ==
    /\ pc[p] = "retry_while"
    /\ loc[p].attempt > loc[p].max_attempts
    /\ RetryDone(p, loc[p].calls, [ kind |-> "None", call |-> 0 ])
    /\ UNCHANGED <<convs, msgs, lock, now, nextId, budget>>

MaxAttempts == 3
MaxDelay == 2
RetryBudget == 2

RetryNext ==
    \E p \in Procs :
        \/ \E max_attempts \in 0..MaxAttempts, delay \in 1..MaxDelay :
             BeginRetry(p, max_attempts, delay)
        \/ \E raises \in BOOLEAN : RetryCall(p, raises)
        \/ RetrySleep(p)
        \/ RetryFallThrough(p)

RetryInit == InitWith(<<>>, RetryBudget)

RetrySpec == RetryInit /\ [][RetryNext]_vars

\* Two workers serving send_message requests concurrently.
ConcNext ==
    \/ \E p \in Procs : Turn(p, Outcomes)
    \/ Tick

ConcInit == \E h \in ConcHistories : InitWith(h, MaxTurnMsgs)

ConcSpec == ConcInit /\ [][ConcNext]_vars

\* A request that was accepted keeps running: the worker executes its next
\* statement, the endpoint call returns within its timeout
\* (ai_service.py:28, 64-68) and a lock wait ends when the holder commits.
Progress(p) ==
    \/ CreateUserMessage(p)
    \/ SignalExists(p)
    \/ SignalAvg(p)
    \/ SignalWrite(p)
    \/ HookCount(p)
    \/ HookWrite(p)
    \/ Context(p)
    \/ \E o \in Outcomes : CreateAiMessage(p, o)
    \/ CreateAiErrorMessage(p)
    \/ TouchConversation(p)
    \/ Respond(p)

FairInit == \E h \in FairHistories : InitWith(h, MaxTurnMsgs)

ConcFairSpec ==
    /\ FairInit
    /\ [][ConcNext]_vars
    /\ \A p \in Procs : WF_vars(Progress(p))

\* Two workers serving send_message requests, blank ones included, on any
\* of the conversations.
FrameNext ==
    \/ \E p \in Procs : TurnOf(p, Convs, Texts, {"none"}, {"ok", "refused"})
    \/ Tick

FrameInit == \E h \in FairHistories : InitWith(h, MaxTurnMsgs)

FrameSpec == FrameInit /\ [][FrameNext]_vars

\* Conversation 1 was created through the API with one of the statuses
\* (ConversationCreateSerializer.create, serializers.py:220-232) and holds
\* the messages of a history; worker 1
\* serves turns on it while worker 2 serves the requests that update it,
\* end it and share it.
ConvBudget == 2

ConvInit ==
    \E st \in CONVERSATION_STATUS_CHOICES, u \in UuidDraws(NewConversation(1)),
       h \in FairHistories :
        /\ msgs = HistoryMessages(h)
        /\ convs = [c \in Convs |->
                     IF c = 1
                     THEN [ FullRow(ConversationSave([NewConversation(1) EXCEPT !.status = st], u), 1)
                              EXCEPT !.message_count = Len(h),
                                     !.average_sentiment =
                                         OrZero(Avg(AnalyzedUserMessages(HistoryMessages(h), 1))),
                                     !.last_message_at = IF h = <<>> THEN Null ELSE Len(h) + 1 ]
                     ELSE NewConversation(1)]
        /\ lock = [c \in Convs |-> 0]
        /\ now = Len(h) + 1
        /\ nextId = Len(h) + 1
        /\ budget = ConvBudget
        /\ pc = [p \in Procs |-> "idle"]
        /\ loc = [p \in Procs |-> IdleLoc]
        /\ resp = [p \in Procs |-> NoResponse]

ConvNext ==
    \/ TurnOf(1, {1}, { <<"o", "k">> }, {"none"}, {"ok"})
    \/ \E ch \in ApiUpdates : UpdateConversation(2, 1, ch)
    \/ EndConversation(2, 1)
    \/ \E b \in BOOLEAN : SetPublic(2, 1, b)
    \/ SaveConversation(2)

ConvSpec == ConvInit /\ [][ConvNext]_vars

\* One turn on a conversation that already holds up to MaxHist messages.
MaxHist == 5
CtxBudget == 2

RECURSIVE SeqsUpTo(_, _)
SeqsUpTo(S, n) ==
    IF n = 0 THEN { <<>> }
    ELSE LET shorter == SeqsUpTo(S, n - 1)
         IN shorter \cup { Append(q, x) : q \in shorter, x \in S }

CtxKinds == { <<sender, 0>> : sender \in SENDER_CHOICES } \cup { <<"user", 8>> }

CtxHistories == SeqsUpTo(CtxKinds, MaxHist)

CtxInit == \E h \in CtxHistories : InitWith(h, CtxBudget)

CtxNext ==
    \/ Turn(1, {"ok"})
    \/ Tick

CtxSpec == CtxInit /\ [][CtxNext]_vars

(* ------------------------------- claims ------------------------------- *)

\* No request is being served: every operation has completed.
Quiescent == \A p \in Procs : pc[p] = "idle"

\* The mean of section 4.5: over the user messages with a non-zero score,
\* 0.0 when there is none.
MeanSentiment(c) == OrZero(Avg(AnalyzedUserMessages(msgs, c)))

InRange(a) == -10 * a[2] <= a[1] /\ a[1] <= 10 * a[2]

\* C1: after any sequence of completed operations (turns, message creation,
\* message save, message deletion) message_count equals the number of the
\* conversation's messages.
C1_CountMatches ==
    Quiescent => \A c \in Convs : convs[c].message_count = CountMessages(msgs, c)

\* C2: once two concurrent turns on one conversation have both completed,
\* message_count equals the number of persisted messages and
\* average_sentiment the mean over the analyzed user messages.
C2_ConcurrentTurnsConsistent ==
    Quiescent =>
        \A c \in Convs : /\ convs[c].message_count = CountMessages(msgs, c)
                         /\ convs[c].average_sentiment = MeanSentiment(c)

\* Two turns that overlapped have both completed on a conversation that
\* holds analyzed user messages.
C2_Witness ==
    /\ Quiescent
    /\ resp[1].code = 201 /\ resp[2].code = 201
    /\ resp[1].user_message[1].id < resp[2].ai_message[1].id
    /\ resp[2].user_message[1].id < resp[1].ai_message[1].id
    /\ AnalyzedUserMessages(msgs, 1) # {}

\* C3: whenever no operation is in progress, average_sentiment is the mean
\* of the non-zero scores of the conversation's user messages.
C3_AverageIsMean ==
    Quiescent => \A c \in Convs : convs[c].average_sentiment = MeanSentiment(c)

\* C4: average_sentiment lies in [-1, 1] and is 0.0 whenever the conversation
\* has no user message with a non-zero score.
C4_AverageBoundedAndZero ==
    \A c \in Convs :
        /\ InRange(convs[c].average_sentiment)
        /\ AnalyzedUserMessages(msgs, c) = {} => convs[c].average_sentiment = Zero

\* A message is saved again with nothing changed, on a conversation whose
\* aggregates were computed from the present message set.
Resave ==
    /\ \E m \in msgs, score \in SaveScores : SaveMessage(m.id, score)
    /\ msgs' = msgs
    /\ \A c \in Convs : /\ convs[c].message_count = CountMessages(msgs, c)
                        /\ convs[c].average_sentiment = MeanSentiment(c)

\* C5: running the recompute again on an unchanged message set leaves
\* message_count, average_sentiment and last_message_at as they were.
C5_RecomputeIdempotent ==
    [][Resave =>
         \A c \in Convs :
            /\ convs'[c].message_count = convs[c].message_count
            /\ convs'[c].average_sentiment = convs[c].average_sentiment
            /\ convs'[c].last_message_at = convs[c].last_message_at]_vars

\* C6: for each failure of the endpoint the turn answers with the user
\* message (status sent) and an AI message with status failed that holds the
\* user-safe text of that failure.
C6_FailureGivesFailedMessage ==
    \A p \in Procs :
        (resp[p].code = 201 /\ resp[p].outcome \in FailureOutcomes) =>
            /\ Len(resp[p].user_message) = 1
            /\ resp[p].user_message[1].status = "sent"
            /\ Len(resp[p].ai_message) = 1
            /\ resp[p].ai_message[1].status = StatusFailed
            /\ resp[p].ai_message[1].content = FailureText(resp[p].outcome)

\* The AI messages persisted for the turn whose user message has id u.
Replies(u) == { m \in msgs : m.sender = "ai" /\ m.turn = u }

\* Worker p has answered a turn: both messages are persisted, one AI message
\* for the user message.
Completed(p) ==
    /\ pc[p] = "idle"
    /\ resp[p].code = 201
    /\ Len(resp[p].user_message) = 1
    /\ resp[p].user_message[1] \in msgs
    /\ Cardinality(Replies(resp[p].user_message[1].id)) = 1

\* C7: every turn whose user message has been written completes with
\* exactly one AI message persisted for it, whatever the endpoint does.
C7_TurnCompletesWithOneReply ==
    \A p \in Procs : (loc[p].umsg # 0) ~> Completed(p)

\* A turn completed although the endpoint timed out, and one although the
\* try block raised.
C7_Witness ==
    /\ Completed(1) /\ resp[1].outcome = "timeout"
    /\ Completed(2) /\ resp[2].outcome = "raised"

\* C8: what a reader sees never holds a turn's AI message without its user
\* message, and never shows updated_at advanced with a message_count that
\* does not count the persisted messages.
C8_ReaderSeesOrderedEffects ==
    [][ /\ \A m \in msgs' :
              (m.sender = "ai" /\ m.turn # 0) => \E u \in msgs' : u.id = m.turn
        /\ \A c \in Convs :
              convs'[c].updated_at # convs[c].updated_at =>
                  convs'[c].message_count = CountMessages(msgs', c) ]_vars

\* A turn has written both messages and the conversation's new updated_at,
\* and a reader still sees none of it.
C8_Witness ==
    \E p \in Procs :
        /\ pc[p] = "respond"
        /\ loc[p].row.updated_at > convs[loc[p].c].updated_at
        /\ loc[p].amsg # 0
        /\ loc[p].ins \cap msgs = {}
        /\ convs[loc[p].c].message_count < loc[p].row.message_count

\* The last n entries of a sequence.
LastN(q, n) == SubSeq(q, IF Len(q) < n THEN 1 ELSE Len(q) - n + 1, Len(q))

\* The context of the claim: the last ContextWindow messages before the new
\* user message, oldest first, then the new user message.
LastContext(ms, c, uid, text) ==
    LET prev == LastN(OrderByCreated({ m \in MessagesOf(ms, c) : m.id # uid }),
                      ContextWindow)
    IN  [ i \in 1..Len(prev) |-> [ role |-> Role(prev[i]), content |-> prev[i].content ] ]
        \o << [ role |-> "user", content |-> text ] >>

\* C9: the context sent to the endpoint is the most recent three messages
\* that precede the new user message, oldest first, then the new message.
C9_ContextIsLastThree ==
    \A p \in Procs :
        pc[p] = "create_ai" =>
            loc[p].ctx = LastContext(Visible(p), loc[p].c, loc[p].umsg, loc[p].text)

Blank(raw) == \A i \in 1..Len(raw) : raw[i] = Space

\* C10: a turn whose text is empty after trimming is answered as invalid
\* input and changes nothing: no message row, no conversation field, no
\* call of the endpoint.
C10_BlankTextRejected ==
    [][ \A p \in Procs, c \in Convs, raw \in Texts :
          (BeginSendMessage(p, c, raw, "none") /\ Blank(raw)) =>
              /\ resp'[p].code = 400
              /\ pc'[p] = "idle"
              /\ loc' = loc
              /\ msgs' = msgs /\ convs' = convs /\ nextId' = nextId ]_vars

\* A request with blank text was answered 400 on a conversation that holds
\* messages.
C10_Witness ==
    /\ resp[1].code = 400
    /\ pc[1] = "idle"
    /\ msgs # {}

\* C11: a completed turn stores on the user message the sentiment_score and
\* sentiment_label the sentiment service returns for the text when the
\* service is available, and keeps the defaults (0.0, null) when it is not;
\* either way the turn answers with both messages.
C11_SentimentStoredOnUserMessage ==
    \A p \in Procs :
        resp[p].code = 201 =>
            /\ Len(resp[p].user_message) = 1
            /\ Len(resp[p].ai_message) = 1
            /\ LET r == analyze(resp[p].pipeline)
                   u == resp[p].user_message[1]
               IN IF r.available
                  THEN /\ u.sentiment_score = r.sentiment_score
                       /\ u.sentiment_label = r.sentiment
                  ELSE /\ u.sentiment_score = 0
                       /\ u.sentiment_label = NoLabel

\* max(created_at) over the messages of conversation c, unset on none.
RECURSIVE MaxOf(_)
MaxOf(S) ==
    IF S = {} THEN Null
    ELSE LET x == CHOOSE y \in S : TRUE
             r == MaxOf(S \ {x})
         IN IF x > r THEN x ELSE r

MaxCreatedAt(ms, c) == MaxOf({ m.created_at : m \in MessagesOf(ms, c) })

\* C12: whenever no request is in progress, last_message_at is the largest
\* created_at of the conversation's messages, unset while it has none; an
\* update of a message's status or reaction flags does not move it.
C12_LastMessageAtIsNewest ==
    Quiescent =>
        \A c \in Convs : convs[c].last_message_at = MaxCreatedAt(msgs, c)

\* C13: the last_message_at a reader sees of a conversation never decreases,
\* also when the writes of overlapping turns interleave.
C13_LastMessageAtMonotone ==
    [][ \A c \in Convs :
          convs'[c].last_message_at >= convs[c].last_message_at ]_vars

\* A turn that waited for the row lock has written the timestamp it read
\* before waiting, which is older than the one committed in between.
C13_Witness ==
    \E p \in Procs :
        /\ loc[p].wrote
        /\ loc[p].row.last_message_at < convs[loc[p].c].last_message_at

\* The answers of the endpoint with a 2xx status: raise_for_status passed.
TwoXX == { "ok", "blank", "nofields", "badjson", "jsonerror" }

\* C14: after a 2xx answer with extractable text the AI message holds that
\* text trimmed; after any other 2xx answer it holds the generic "couldn't
\* generate a response" text; in both cases its status is not failed.
C14_ReplyTextOf2xx ==
    \A p \in Procs :
        (resp[p].code = 201 /\ resp[p].outcome \in TwoXX) =>
            /\ Len(resp[p].ai_message) = 1
            /\ resp[p].ai_message[1] \in msgs
            /\ resp[p].ai_message[1].status # StatusFailed
            /\ resp[p].ai_message[1].content =
                  IF resp[p].outcome = "ok" THEN <<"y">> ELSE TextNoResponse

\* C15: every persisted message has a status of STATUS_CHOICES.
C15_StatusInChoices ==
    \A m \in msgs : m.status \in STATUS_CHOICES

\* C16: every persisted message has non-empty content of at most
\* MAX_MESSAGE_LENGTH characters.
C16_ContentBounded ==
    \A m \in msgs : m.content # <<>> /\ Len(m.content) <= MAX_MESSAGE_LENGTH

\* A step of worker p's request, and the conversation the request is on.
TurnStep(p) == pc'[p] # pc[p] \/ loc'[p] # loc[p] \/ resp'[p] # resp[p]
TurnConv(p) == IF pc[p] = "idle" THEN loc'[p].c ELSE loc[p].c

\* C17: a step of a turn on conversation C leaves every other conversation's
\* message set, message_count, average_sentiment and last_message_at as
\* they were.
C17_TurnChangesOnlyItsConversation ==
    [][ \A p \in Procs :
          TurnStep(p) =>
              \A c \in Convs \ {TurnConv(p)} :
                  /\ MessagesOf(msgs', c) = MessagesOf(msgs, c)
                  /\ convs'[c].message_count = convs[c].message_count
                  /\ convs'[c].average_sentiment = convs[c].average_sentiment
                  /\ convs'[c].last_message_at = convs[c].last_message_at ]_vars

\* Turns on two different conversations have both written their messages
\* and aggregates and neither has committed: they ran interleaved, one not
\* waiting for the other; the other conversation already holds a message.
C17_Witness ==
    /\ pc[1] = "respond" /\ pc[2] = "respond"
    /\ loc[1].c # loc[2].c
    /\ msgs # {}

\* C18: a save that makes a private conversation public assigns a non-null
\* share_token of 32 characters, and no later save changes an assigned
\* token, is_public being switched off and on again included.
C18_ShareTokenAssignedOnce ==
    [][ \A c \in Convs :
          /\ (~convs[c].is_public /\ convs'[c].is_public) =>
                 Len(convs'[c].share_token) = TokenLength
          /\ convs[c].share_token # NoToken =>
                 convs'[c].share_token = convs[c].share_token ]_vars

\* C19: every saved conversation has a share_token if and only if it is
\* public.
C19_TokenIffPublic ==
    \A c \in Convs : (convs[c].share_token # NoToken) <=> convs[c].is_public

\* C20: every saved conversation with status archived has is_archived set.
C20_ArchivedStatusImpliesFlag ==
    \A c \in Convs : convs[c].status = "archived" => convs[c].is_archived

\* A conversation that holds messages was saved as archived, and a request
\* that keeps the status and clears is_archived is about to be saved.
C20_Witness ==
    /\ convs[1].status = "archived" /\ convs[1].is_archived
    /\ msgs # {}
    /\ pc[2] = "save_conversation"
    /\ loc[2].obj.status = "archived" /\ ~loc[2].obj.is_archived

\* C21: when an archived conversation (status archived, is_archived true) is
\* saved with only its status set back to active, the saved row has
\* is_archived false.
C21_UnarchiveClearsFlag ==
    [][ \A p \in Procs :
          ( /\ pc[p] = "save_conversation" /\ pc'[p] = "idle"
            /\ convs[loc[p].c].status = "archived" /\ convs[loc[p].c].is_archived
            /\ loc[p].obj = [convs[loc[p].c] EXCEPT !.status = "active"] )
          => ~convs'[loc[p].c].is_archived ]_vars

\* C22: deleted is terminal: a conversation whose status is deleted never
\* gets another status, and the step that sets the status to deleted
\* removes the conversation's messages.
C22_DeletedIsTerminal ==
    [][ \A c \in Convs :
          /\ convs[c].status = "deleted" => convs'[c].status = "deleted"
          /\ (convs[c].status # "deleted" /\ convs'[c].status = "deleted")
                 => MessagesOf(msgs', c) = {} ]_vars

\* C23: no message has is_liked and is_disliked both true.
C23_LikeExcludesDislike ==
    \A m \in msgs : ~(m.is_liked /\ m.is_disliked)

\* C24: every message keeps its content, sender and conversation, and no
\* step removes a message of a conversation that still exists.
C24_MessagesImmutableAndKept ==
    [][ \A m \in msgs :
          \E m2 \in msgs' :
              /\ m2.id = m.id
              /\ m2.content = m.content
              /\ m2.sender = m.sender
              /\ m2.conversation = m.conversation ]_vars

\* C25: a list answered to user U holds only conversations owned by U, and
\* retrieving a conversation owned by another user is answered 404.
C25_UserSeesOnlyOwnConversations ==
    \A p \in Procs :
        "action" \in DOMAIN resp[p] =>
            /\ resp[p].action = "list" =>
                  \A c \in resp[p].results : convs[c].user = resp[p].user
            /\ (resp[p].action = "retrieve" /\ convs[resp[p].id].user # resp[p].user)
                  => resp[p].code = 404

\* The score of the i-th category of the table for a lower-cased text.
ScoreOf(i, t) == Cardinality({ k \in 1..Len(topics[i].keywords) : In(topics[i].keywords[k], t) })

\* Category i comes before category j: higher score, or equal score and
\* earlier in the table.
Before(i, j, t) ==
    \/ ScoreOf(i, t) > ScoreOf(j, t)
    \/ ScoreOf(i, t) = ScoreOf(j, t) /\ i < j

\* The place of category i among the categories with a positive score.
Rank(i, t) ==
    1 + Cardinality({ j \in 1..Len(topics) : ScoreOf(j, t) > 0 /\ Before(j, i, t) })

\* The result of the specified algorithm is what the call returned.
Specified(text, top_k, r) ==
    LET t      == lower(text)
        scored == { i \in 1..Len(topics) : ScoreOf(i, t) > 0 }
    IN  IF scored = {}
        THEN /\ r.primary_topic = "general"
             /\ r.confidence = 3
             /\ r.keywords = <<>>
             /\ r.secondary_topics = <<>>
        ELSE LET first == CHOOSE i \in scored : Rank(i, t) = 1
                 kws   == { topics[first].keywords[k] : k \in
                              { k \in 1..Len(topics[first].keywords) :
                                  In(topics[first].keywords[k], t) } }
                 next  == { i \in scored : Rank(i, t) >= 2 /\ Rank(i, t) <= top_k }
             IN  /\ r.primary_topic = topics[first].category
                 /\ Len(r.secondary_topics) = Cardinality(next)
                 /\ \A i \in next : r.secondary_topics[Rank(i, t) - 1] = topics[i].category
                 /\ r.confidence = (IF ScoreOf(first, t) < 10 THEN ScoreOf(first, t) ELSE 10)
                 /\ { r.keywords[k] : k \in 1..Len(r.keywords) } = kws
                 /\ Len(r.keywords) = Cardinality(kws)

\* C26: every call of extract_topics returned the result of the specified
\* algorithm for its text and its top_k.
C26_ExtractTopicsAsSpecified ==
    \A p \in Procs :
        ("action" \in DOMAIN resp[p] /\ resp[p].action = "extract_topics")
            => Specified(resp[p].text, resp[p].top_k, resp[p].result)

\* C27: for a text containing the words debug, api and database the call
\* returned primary_topic technical, keywords containing debug, api and
\* database, and a positive confidence.
C27_DebugApiDatabaseIsTechnical ==
    \A p \in Procs :
        ( /\ "action" \in DOMAIN resp[p] /\ resp[p].action = "extract_topics"
          /\ \A w \in { "debug", "api", "database" } : In(w, lower(resp[p].text)) )
        => /\ resp[p].result.primary_topic = "technical"
           /\ \A w \in { "debug", "api", "database" } :
                 \E k \in 1..Len(resp[p].result.keywords) : resp[p].result.keywords[k] = w
           /\ resp[p].result.confidence > 0

\* The result of analyze for a text on which the model is unavailable.
NeutralDefaults(r) ==
    /\ r.sentiment = "neutral"
    /\ r.score = 0
    /\ ~r.available

\* C28: a call of analyze on which the sentiment model was unavailable (no
\* pipeline, or the pipeline call raised) returned the label neutral, the
\* score 0.0 and available false, for every text; batch_analyze returned one
\* result per text, and that result for each text on which the model was
\* unavailable.
C28_UnavailableSentimentIsNeutral ==
    \A p \in Procs :
        "action" \in DOMAIN resp[p] =>
            /\ (resp[p].action = "analyze" /\ resp[p].pipeline \in { "none", "raises" })
                  => NeutralDefaults(resp[p].result)
            /\ resp[p].action = "batch_analyze" =>
                  /\ Len(resp[p].results) = Len(resp[p].pipelines)
                  /\ \A i \in 1..Len(resp[p].pipelines) :
                        resp[p].pipelines[i] \in { "none", "raises" }
                            => NeutralDefaults(resp[p].results[i])

C28_Witness ==
    \E p \in Procs :
        /\ "action" \in DOMAIN resp[p]
        /\ resp[p].action = "batch_analyze"
        /\ Len(resp[p].pipelines) = 3
        /\ resp[p].pipelines[1] = "POSITIVE"
        /\ resp[p].pipelines[2] = "raises"
        /\ resp[p].results[1].available
        /\ ~resp[p].results[2].available

\* C29: the document of an export, parsed back, holds the conversation's id,
\* its title and its message_count.
C29_ExportRoundTrip ==
    \A p \in Procs :
        ("action" \in DOMAIN resp[p] /\ resp[p].action = "export_to_json") =>
            /\ resp[p].parsed.conversation.id = resp[p].conversation.id
            /\ resp[p].parsed.conversation.title = resp[p].conversation.title
            /\ resp[p].parsed.conversation.message_count
                   = resp[p].conversation.message_count

RECURSIVE Pow2(_)
Pow2(n) == IF n = 0 THEN 1 ELSE 2 * Pow2(n - 1)

\* C30: when a wrapped call is over, the function was called at least once
\* and at most max_attempts times; every call but the last raised; the
\* wrapper returned the result of the last call if that call returned, and
\* raised the exception of the last call if it raised, which takes
\* max_attempts calls; it slept once between two successive calls, for delay,
\* 2*delay, 4*delay, ...
C30_RetryContract ==
    \A p \in Procs :
        ("action" \in DOMAIN resp[p] /\ resp[p].action = "retry") =>
            LET r == resp[p]
                n == Len(r.calls)
            IN  /\ n >= 1
                /\ n <= r.max_attempts
                /\ \A i \in 1..(n - 1) : r.calls[i] = "raised"
                /\ r.calls[n] = "returned"
                      => r.outcome = [ kind |-> "result", call |-> n ]
                /\ r.calls[n] = "raised"
                      => /\ n = r.max_attempts
                         /\ r.outcome = [ kind |-> "exception", call |-> n ]
                /\ Len(r.sleeps) = n - 1
                /\ \A i \in 1..Len(r.sleeps) : r.sleeps[i] = Pow2(i - 1) * r.delay

====
